---- MODULE Spec2Model ----
(***************************************************************************)
(* Model of the outbound caller (outbound-caller-python/agent.py) and of   *)
(* the dispatch form (outbound-caller-python/app.py).                      *)
(*                                                                         *)
(* agent.py: entrypoint is one coroutine; session.start runs as a separate *)
(* asyncio task; the framework invokes the agent's tools while the session *)
(* runs.  Every await is a point where the other coroutines may run, so    *)
(* each action below is the code between two awaits.  A request to the     *)
(* framework (generate_reply, transfer_sip_participant, delete_room,       *)
(* create_sip_participant, session.start) either returns or raises.        *)
(*                                                                         *)
(* app.py: the script is re-run on every interaction with the form; the    *)
(* button handler is one action.                                           *)
(***************************************************************************)
EXTENDS Naturals, Sequences, FiniteSets

VARIABLES
    \* ---- agent.py
    dial_info,          \* OutboundCaller.dial_info: [phone_number, transfer_to]
    participant,        \* OutboundCaller.participant: "None" or the identity
    pc,                 \* position of the entrypoint coroutine
    sessionTask,        \* the session_started task
    callAnswered,       \* the callee picked up: their audio reaches the session
    dialOutcome,        \* how create_sip_participant ended
    lookupStarted,      \* wait_for_participant has been called
    shutdownRequested,  \* ctx.shutdown() has been called
    currentSpeech,      \* session.current_speech: 0 (None) or a speech handle
    speechSeq,          \* number of speech handles created so far
    tool,               \* the tool invocation in progress (or the last one)
    invocations,        \* number of tool invocations so far
    deleteRequests,     \* delete_room requests issued for the job's room
    transferRequests,   \* transfer_sip_participant requests issued
    roomDeleted,        \* a delete_room request succeeded
    \* ---- app.py
    phone_number,       \* text of the "Phone Number" field
    transfer_to_number, \* text of the "Transfer To Number" field
    ui                  \* what the last run of the script did and showed

agentVars == <<dial_info, participant, pc, sessionTask, callAnswered, dialOutcome,
               lookupStarted, shutdownRequested, currentSpeech, speechSeq, tool,
               invocations, deleteRequests, transferRequests, roomDeleted>>
appVars == <<phone_number, transfer_to_number, ui>>
vars == <<agentVars, appVars>>

----------------------------------------------------------------------------
\* Bounds of the model.
MaxInvocations == 2
MaxSpeech == 2
MaxLen == 2

----------------------------------------------------------------------------
\* agent.py

None == "None"

\* The metadata of the job: json.loads(ctx.job.metadata).
PhoneNumbers == {"+918980579954"}
TransferTos == {"", "+17345214522"}

Dates == {"monday", "tuesday"}
Times == {"11am", "3pm"}
NoArg == "-"
NotRead == "not read"

\* Outcomes of an awaited request to the framework.
Outcomes == {"ok", "raise"}
\* Exceptions the entrypoint's try block can see.
Exceptions == {"TwirpError", "Exception"}

AvailableTimes == [available_times |-> <<"1pm", "2pm", "3pm">>]
ReservationConfirmed == "reservation confirmed"
CannotTransfer == "cannot transfer call"

IdleTool ==
    [name |-> "none", pc |-> "idle", date |-> NoArg, time |-> NoArg,
     result |-> None, raised |-> "none", readParticipant |-> NotRead,
     replies |-> 0, reply1 |-> FALSE, transfers |-> 0, transferOutcome |-> "none",
     deletes |-> 0, speech |-> 0]

Finished == {"returned", "raised"}

\* `not transfer_to`
Falsy(s) == s = ""

AgentInit ==
    /\ dial_info \in [phone_number : PhoneNumbers, transfer_to : TransferTos]
    /\ participant = None
    /\ pc = "create_task"
    /\ sessionTask = "none"
    /\ callAnswered = FALSE
    /\ dialOutcome = "none"
    /\ lookupStarted = FALSE
    /\ shutdownRequested = FALSE
    /\ currentSpeech = 0
    /\ speechSeq = 0
    /\ tool = IdleTool
    /\ invocations = 0
    /\ deleteRequests = 0
    /\ transferRequests = 0
    /\ roomDeleted = FALSE

\* app.py: the form as the script's first run shows it (the fields hold their
\* default values, shortened to the model's alphabet; the button is not pressed).
Whitespace == {" ", "\t"}
Alphabet == Whitespace \cup {"+", "9"}
Texts == UNION {[1..n -> Alphabet] : n \in 0..MaxLen}
TransferTexts == {<<>>, <<"+", "1">>}
DefaultPhone == <<"+", "9">>
DefaultTransferTo == <<"+", "1">>

NotPressed == [pressed |-> FALSE, ran |-> FALSE, metadata |-> <<>>, shown |-> <<>>]

AppInit ==
    /\ phone_number = DefaultPhone
    /\ transfer_to_number = DefaultTransferTo
    /\ ui = NotPressed

Init == AgentInit /\ AppInit

\* ---- entrypoint

\* session_started = asyncio.create_task(session.start(...))
EntryCreateTask ==
    /\ pc = "create_task"
    /\ sessionTask' = "running"
    /\ pc' = "dial"
    /\ UNCHANGED <<dial_info, participant, callAnswered, dialOutcome, lookupStarted,
                   shutdownRequested, currentSpeech, speechSeq, tool, invocations,
                   deleteRequests, transferRequests, roomDeleted, appVars>>

\* The mutant awaits session.start() before dialing.
EntryDial_AwaitsSession ==
    /\ pc = "dial"
    /\ sessionTask = "done"
    /\ pc' = "dialing"
    /\ UNCHANGED <<dial_info, participant, sessionTask, callAnswered, dialOutcome,
                   lookupStarted, shutdownRequested, currentSpeech, speechSeq, tool,
                   invocations, deleteRequests, transferRequests, roomDeleted,
                   appVars>>

\* await ctx.api.sip.create_sip_participant(...): the request is issued.
EntryDial ==
    /\ pc = "dial"
    /\ pc' = "dialing"
    /\ UNCHANGED <<dial_info, participant, sessionTask, callAnswered, dialOutcome,
                   lookupStarted, shutdownRequested, currentSpeech, speechSeq, tool,
                   invocations, deleteRequests, transferRequests, roomDeleted,
                   appVars>>

\* The callee picks up while the dial request is pending.
CalleeAnswers ==
    /\ pc = "dialing"
    /\ ~callAnswered
    /\ callAnswered' = TRUE
    /\ UNCHANGED <<dial_info, participant, pc, sessionTask, dialOutcome, lookupStarted,
                   shutdownRequested, currentSpeech, speechSeq, tool, invocations,
                   deleteRequests, transferRequests, roomDeleted, appVars>>

\* wait_until_answered=True: the request returns once the callee has answered.
EntryDialReturn ==
    /\ pc = "dialing"
    /\ callAnswered
    /\ dialOutcome' = "ok"
    /\ pc' = "await_session"
    /\ UNCHANGED <<dial_info, participant, sessionTask, callAnswered, lookupStarted,
                   shutdownRequested, currentSpeech, speechSeq, tool, invocations,
                   deleteRequests, transferRequests, roomDeleted, appVars>>

\* The mutant handler logs the error and does not shut the job down.
EntryExcept_NoShutdown(e) ==
    /\ pc' = IF e = "TwirpError" THEN "shutdown" ELSE "raised"
    /\ UNCHANGED shutdownRequested

\* except api.TwirpError: log, ctx.shutdown().  Any other exception leaves
\* entrypoint unhandled.
EntryExcept(e) ==
    IF e = "TwirpError"
    THEN /\ pc' = "shutdown"
         /\ shutdownRequested' = TRUE
    ELSE /\ pc' = "raised"
         /\ UNCHANGED shutdownRequested

\* create_sip_participant raises: the server reports that the call failed
\* (TwirpError, before any answer) or the request itself fails.
EntryDialFail(e) ==
    /\ pc = "dialing"
    /\ e = "TwirpError" => ~callAnswered
    /\ dialOutcome' = e
    /\ EntryExcept(e)
    /\ UNCHANGED <<dial_info, participant, sessionTask, callAnswered, lookupStarted,
                   currentSpeech, speechSeq, tool, invocations, deleteRequests,
                   transferRequests, roomDeleted, appVars>>

\* The mutant drops `await session_started`.
EntryAwaitSession_NoAwait ==
    /\ pc = "await_session"
    /\ pc' = "lookup"
    /\ lookupStarted' = TRUE
    /\ UNCHANGED <<dial_info, participant, sessionTask, callAnswered, dialOutcome,
                   shutdownRequested, currentSpeech, speechSeq, tool, invocations,
                   deleteRequests, transferRequests, roomDeleted, appVars>>

\* await session_started, then ctx.wait_for_participant(...) is called.
EntryAwaitSession ==
    /\ pc = "await_session"
    /\ \/ /\ sessionTask = "done"
          /\ pc' = "lookup"
          /\ lookupStarted' = TRUE
          /\ UNCHANGED shutdownRequested
       \/ /\ sessionTask \in Exceptions
          /\ EntryExcept(sessionTask)
          /\ UNCHANGED lookupStarted
    /\ UNCHANGED <<dial_info, participant, sessionTask, callAnswered, dialOutcome,
                   currentSpeech, speechSeq, tool, invocations, deleteRequests,
                   transferRequests, roomDeleted, appVars>>

\* wait_for_participant returns the participant; agent.set_participant(participant).
EntrySetParticipant ==
    /\ pc = "lookup"
    /\ participant' = dial_info.phone_number
    /\ pc' = "done"
    /\ UNCHANGED <<dial_info, sessionTask, callAnswered, dialOutcome, lookupStarted,
                   shutdownRequested, currentSpeech, speechSeq, tool, invocations,
                   deleteRequests, transferRequests, roomDeleted, appVars>>

\* wait_for_participant raises.
EntryLookupFail(e) ==
    /\ pc = "lookup"
    /\ EntryExcept(e)
    /\ UNCHANGED <<dial_info, participant, sessionTask, callAnswered, dialOutcome,
                   lookupStarted, currentSpeech, speechSeq, tool, invocations,
                   deleteRequests, transferRequests, roomDeleted, appVars>>

\* ---- the session_started task

SessionStarted ==
    /\ sessionTask = "running"
    /\ sessionTask' = "done"
    /\ UNCHANGED <<dial_info, participant, pc, callAnswered, dialOutcome, lookupStarted,
                   shutdownRequested, currentSpeech, speechSeq, tool, invocations,
                   deleteRequests, transferRequests, roomDeleted, appVars>>

SessionStartFail(e) ==
    /\ sessionTask = "running"
    /\ sessionTask' = e
    /\ UNCHANGED <<dial_info, participant, pc, callAnswered, dialOutcome, lookupStarted,
                   shutdownRequested, currentSpeech, speechSeq, tool, invocations,
                   deleteRequests, transferRequests, roomDeleted, appVars>>

\* ---- the session's speech (session.current_speech)

SpeechStart ==
    /\ sessionTask = "done"
    /\ currentSpeech = 0
    /\ speechSeq < MaxSpeech
    /\ speechSeq' = speechSeq + 1
    /\ currentSpeech' = speechSeq + 1
    /\ UNCHANGED <<dial_info, participant, pc, sessionTask, callAnswered, dialOutcome,
                   lookupStarted, shutdownRequested, tool, invocations, deleteRequests,
                   transferRequests, roomDeleted, appVars>>

SpeechPlayedOut ==
    /\ currentSpeech # 0
    /\ currentSpeech' = 0
    /\ UNCHANGED <<dial_info, participant, pc, sessionTask, callAnswered, dialOutcome,
                   lookupStarted, shutdownRequested, speechSeq, tool, invocations,
                   deleteRequests, transferRequests, roomDeleted, appVars>>

\* ---- the tools of OutboundCaller

\* What no tool assigns.
toolFrame == <<dial_info, participant, pc, sessionTask, callAnswered, dialOutcome,
               lookupStarted, shutdownRequested, currentSpeech, speechSeq, invocations,
               appVars>>

\* The framework calls a tool for the language model: the session is running
\* and the callee's audio reaches it.  One invocation at a time.
ToolInvoke(n, d, t) ==
    /\ tool.pc \in {"idle"} \cup Finished
    /\ invocations < MaxInvocations
    /\ sessionTask = "done"
    /\ callAnswered
    /\ ~roomDeleted
    /\ tool' = [IdleTool EXCEPT !.name = n, !.pc = "start", !.date = d, !.time = t]
    /\ invocations' = invocations + 1
    /\ UNCHANGED <<dial_info, participant, pc, sessionTask, callAnswered, dialOutcome,
                   lookupStarted, shutdownRequested, currentSpeech, speechSeq,
                   deleteRequests, transferRequests, roomDeleted, appVars>>

\* An exception leaves the tool.
Raise(t, e) == [t EXCEPT !.pc = "raised", !.raised = e]

\* The tool returns v.
Return(t, v) == [t EXCEPT !.pc = "returned", !.result = v]

\* self.participant.identity: the tool keeps what it read.
ReadParticipant(t) == [t EXCEPT !.readParticipant = participant]

\* hangup(): the delete_room request for job_ctx.room.name is issued.
Hangup(t) ==
    /\ tool' = [t EXCEPT !.pc = "hangup", !.deletes = @ + 1]
    /\ deleteRequests' = deleteRequests + 1

\* await delete_room(...) ends; the tool returns None, or the exception leaves it.
HangupResult(o) ==
    /\ tool.pc = "hangup"
    /\ IF o = "ok"
       THEN /\ roomDeleted' = TRUE
            /\ tool' = Return(tool, None)
       ELSE /\ tool' = Raise(tool, "Exception")
            /\ UNCHANGED roomDeleted
    /\ UNCHANGED <<toolFrame, deleteRequests, transferRequests>>

\* The mutant has lost the `if not transfer_to` guard.
TransferStart_NoCheck ==
    /\ tool.name = "transfer_call"
    /\ tool.pc = "start"
    /\ tool' = [tool EXCEPT !.pc = "reply1", !.replies = @ + 1]
    /\ UNCHANGED <<toolFrame, deleteRequests, transferRequests, roomDeleted,
                   appVars>>

\* transfer_call up to its first await: the guard on transfer_to, then
\* generate_reply("let the user know you'll be transferring them") is called.
TransferStart ==
    /\ tool.name = "transfer_call"
    /\ tool.pc = "start"
    /\ tool' = IF Falsy(dial_info.transfer_to)
               THEN Return(tool, CannotTransfer)
               ELSE [tool EXCEPT !.pc = "reply1", !.replies = @ + 1]
    /\ UNCHANGED <<toolFrame, deleteRequests, transferRequests, roomDeleted,
                   appVars>>

\* The first reply ends.  If it returned, the try block builds the transfer
\* request: reading self.participant.identity with no participant raises inside
\* the try, and the handler calls generate_reply("there was an error ...");
\* otherwise the request is issued.
TransferReplied(o) ==
    /\ tool.name = "transfer_call"
    /\ tool.pc = "reply1"
    /\ IF o = "raise"
       THEN /\ tool' = Raise(tool, "Exception")
            /\ UNCHANGED transferRequests
       ELSE IF participant = None
       THEN /\ tool' = [ReadParticipant(tool) EXCEPT !.reply1 = TRUE,
                            !.transferOutcome = "failed",
                            !.pc = "reply2", !.replies = @ + 1]
            /\ UNCHANGED transferRequests
       ELSE /\ tool' = [ReadParticipant(tool) EXCEPT !.reply1 = TRUE,
                            !.transfers = @ + 1, !.pc = "transferring"]
            /\ transferRequests' = transferRequests + 1
    /\ UNCHANGED <<toolFrame, deleteRequests, roomDeleted, appVars>>

\* await transfer_sip_participant(...) ends: the tool returns None, or the
\* handler calls generate_reply("there was an error transferring the call.").
TransferResult(o) ==
    /\ tool.name = "transfer_call"
    /\ tool.pc = "transferring"
    /\ tool' = IF o = "ok"
               THEN [Return(tool, None) EXCEPT !.transferOutcome = "ok"]
               ELSE [tool EXCEPT !.transferOutcome = "failed",
                                 !.pc = "reply2", !.replies = @ + 1]
    /\ UNCHANGED <<toolFrame, deleteRequests, transferRequests, roomDeleted,
                   appVars>>

\* The error reply ends: hangup() is called, or the reply's exception leaves
\* the handler.
TransferErrorReplied(o) ==
    /\ tool.name = "transfer_call"
    /\ tool.pc = "reply2"
    /\ IF o = "ok"
       THEN Hangup(tool)
       ELSE /\ tool' = Raise(tool, "Exception")
            /\ UNCHANGED deleteRequests
    /\ UNCHANGED <<toolFrame, transferRequests, roomDeleted, appVars>>

\* The mutant hangs up without waiting for the current speech.
EndCallStart_NoWait ==
    /\ tool.name = "end_call"
    /\ tool.pc = "start"
    /\ IF participant = None
       THEN /\ tool' = Raise(ReadParticipant(tool), "AttributeError")
            /\ UNCHANGED deleteRequests
       ELSE Hangup([ReadParticipant(tool) EXCEPT !.speech = currentSpeech])
    /\ UNCHANGED <<toolFrame, transferRequests, roomDeleted, appVars>>

\* end_call up to its first await: the log line reads the participant, then
\* current_speech is waited for if there is one, else hangup() is called.
EndCallStart ==
    /\ tool.name = "end_call"
    /\ tool.pc = "start"
    /\ IF participant = None
       THEN /\ tool' = Raise(ReadParticipant(tool), "AttributeError")
            /\ UNCHANGED deleteRequests
       ELSE IF currentSpeech # 0
       THEN /\ tool' = [ReadParticipant(tool) EXCEPT !.speech = currentSpeech,
                                                     !.pc = "playout"]
            /\ UNCHANGED deleteRequests
       ELSE Hangup(ReadParticipant(tool))
    /\ UNCHANGED <<toolFrame, transferRequests, roomDeleted, appVars>>

\* current_speech.wait_for_playout() returns: that speech is no longer playing.
EndCallPlayedOut ==
    /\ tool.name = "end_call"
    /\ tool.pc = "playout"
    /\ currentSpeech # tool.speech
    /\ Hangup(tool)
    /\ UNCHANGED <<toolFrame, transferRequests, roomDeleted, appVars>>

\* look_up_availability up to asyncio.sleep(3).
LookUpStart ==
    /\ tool.name = "look_up_availability"
    /\ tool.pc = "start"
    /\ tool' = IF participant = None
               THEN Raise(ReadParticipant(tool), "AttributeError")
               ELSE [ReadParticipant(tool) EXCEPT !.pc = "sleep"]
    /\ UNCHANGED <<toolFrame, deleteRequests, transferRequests, roomDeleted,
                   appVars>>

LookUpReturn ==
    /\ tool.name = "look_up_availability"
    /\ tool.pc = "sleep"
    /\ tool' = Return(tool, AvailableTimes)
    /\ UNCHANGED <<toolFrame, deleteRequests, transferRequests, roomDeleted,
                   appVars>>

ConfirmAppointment ==
    /\ tool.name = "confirm_appointment"
    /\ tool.pc = "start"
    /\ tool' = IF participant = None
               THEN Raise(ReadParticipant(tool), "AttributeError")
               ELSE Return(ReadParticipant(tool), ReservationConfirmed)
    /\ UNCHANGED <<toolFrame, deleteRequests, transferRequests, roomDeleted,
                   appVars>>

DetectedAnsweringMachine ==
    /\ tool.name = "detected_answering_machine"
    /\ tool.pc = "start"
    /\ IF participant = None
       THEN /\ tool' = Raise(ReadParticipant(tool), "AttributeError")
            /\ UNCHANGED deleteRequests
       ELSE Hangup(ReadParticipant(tool))
    /\ UNCHANGED <<toolFrame, transferRequests, roomDeleted, appVars>>

Next ==
    \/ EntryCreateTask
    \/ EntryDial
    \/ CalleeAnswers
    \/ EntryDialReturn
    \/ \E e \in Exceptions : EntryDialFail(e)
    \/ EntryAwaitSession
    \/ EntrySetParticipant
    \/ \E e \in Exceptions : EntryLookupFail(e)
    \/ SessionStarted
    \/ \E e \in Exceptions : SessionStartFail(e)
    \/ SpeechStart
    \/ SpeechPlayedOut
    \/ \E n \in {"transfer_call", "end_call", "detected_answering_machine"} :
          ToolInvoke(n, NoArg, NoArg)
    \/ \E d \in Dates : ToolInvoke("look_up_availability", d, NoArg)
    \/ \E d \in Dates, t \in Times : ToolInvoke("confirm_appointment", d, t)
    \/ TransferStart
    \/ \E o \in Outcomes : TransferReplied(o)
    \/ \E o \in Outcomes : TransferResult(o)
    \/ \E o \in Outcomes : TransferErrorReplied(o)
    \/ EndCallStart
    \/ EndCallPlayedOut
    \/ LookUpStart
    \/ LookUpReturn
    \/ ConfirmAppointment
    \/ DetectedAnsweringMachine
    \/ \E o \in Outcomes : HangupResult(o)

Spec == Init /\ [][Next]_vars

----------------------------------------------------------------------------
\* app.py

RECURSIVE LStrip(_)
LStrip(s) == IF s # <<>> /\ Head(s) \in Whitespace THEN LStrip(Tail(s)) ELSE s

RECURSIVE RStrip(_)
RStrip(s) ==
    IF s # <<>> /\ s[Len(s)] \in Whitespace THEN RStrip(SubSeq(s, 1, Len(s) - 1)) ELSE s

\* The mutant tests the field without stripping it.
Strip_Identity(s) == s

\* str.strip()
Strip(s) == RStrip(LStrip(s))

\* Outcomes of subprocess.run(command, ..., check=True).
RunOutcomes == {"success", "success_stderr", "CalledProcessError",
                "FileNotFoundError", "Exception"}

\* What the script shows after st.info, for each outcome of the command.
Shown(o) ==
    CASE o = "success" -> <<"info", "success">>
      [] o = "success_stderr" -> <<"info", "success", "warning">>
      [] o = "CalledProcessError" -> <<"info", "error: Failed to dispatch call.">>
      [] o = "FileNotFoundError" -> <<"info", "error: LiveKit CLI (lk) not found.">>
      [] o = "Exception" -> <<"info", "error: An unexpected error occurred">>

PleaseEnter == "error: Please enter a phone number to call."

\* The user edits a field: the script runs again and the button is not pressed.
EditPhone(s) ==
    /\ s # phone_number
    /\ phone_number' = s
    /\ ui' = NotPressed
    /\ UNCHANGED <<transfer_to_number, agentVars>>

EditTransferTo(s) ==
    /\ s # transfer_to_number
    /\ transfer_to_number' = s
    /\ ui' = NotPressed
    /\ UNCHANGED <<phone_number, agentVars>>

\* if st.button("Dispatch Call"): the whole handler, the command included.
DispatchCall(o) ==
    /\ ui' = IF Strip(phone_number) = <<>>
             THEN [pressed |-> TRUE, ran |-> FALSE, metadata |-> <<>>,
                   shown |-> <<PleaseEnter>>]
             ELSE [pressed |-> TRUE, ran |-> TRUE,
                   metadata |-> <<phone_number, transfer_to_number>>,
                   shown |-> Shown(o)]
    /\ UNCHANGED <<phone_number, transfer_to_number, agentVars>>

NextApp ==
    \/ \E s \in Texts : EditPhone(s)
    \/ \E s \in TransferTexts : EditTransferTo(s)
    \/ \E o \in RunOutcomes : DispatchCall(o)

SpecApp == Init /\ [][NextApp]_vars

----------------------------------------------------------------------------
\* Properties.

\* C1: in transfer_call with a non-empty transfer_to, whenever the SIP transfer
\* request was issued and raised, the invocation has issued exactly one
\* delete-room request by the time it ends, whatever the error reply did.
C1_TransferFailureDeletesOnce ==
    /\ tool.deletes <= 1
    /\ (/\ tool.name = "transfer_call"
        /\ tool.transfers = 1
        /\ tool.transferOutcome = "failed"
        /\ tool.pc \in Finished)
       => tool.deletes = 1

\* C2: wait_for_participant is not called, and the participant is not set,
\* before create_sip_participant has returned and the session_started task
\* has completed.
C2_LookupAfterDialAndSession ==
    (lookupStarted \/ participant # None)
        => (dialOutcome = "ok" /\ sessionTask = "done")

C2_Witness ==
    /\ pc = "done"
    /\ lookupStarted
    /\ participant = dial_info.phone_number

\* C3 as stated: every failure of create_sip_participant is followed by a
\* shutdown request, with no participant lookup and the participant unset.
C3_DialFailureShutsDown ==
    dialOutcome \in Exceptions
        => (shutdownRequested /\ ~lookupStarted /\ participant = None)

\* C3 amended: a TwirpError of create_sip_participant is followed by a shutdown
\* request; any other exception leaves entrypoint without one; in both cases
\* there is no participant lookup and the participant stays unset.
C3_TwirpDialFailureShutsDown ==
    /\ dialOutcome = "TwirpError" => (shutdownRequested /\ pc = "shutdown")
    /\ dialOutcome = "Exception" => (~shutdownRequested /\ pc = "raised")
    /\ dialOutcome \in Exceptions => (~lookupStarted /\ participant = None)

C3_Witness ==
    /\ dialOutcome = "TwirpError"
    /\ shutdownRequested
    /\ sessionTask = "done"

\* C4: when the button is pressed with a phone number field that is empty or
\* holds only whitespace, the error is shown and the command is not run; the
\* command is run only when the field holds something else.
OnlyWhitespace(s) == \A i \in 1..Len(s) : s[i] \in Whitespace

C4_EmptyPhoneRejected ==
    ui.pressed =>
        /\ OnlyWhitespace(phone_number) => (~ui.ran /\ ui.shown = <<PleaseEnter>>)
        /\ ui.ran => (phone_number # <<>> /\ ~OnlyWhitespace(phone_number))
        /\ ~OnlyWhitespace(phone_number) => ui.ran

C4_Witness ==
    /\ ui.pressed
    /\ phone_number # <<>>
    /\ OnlyWhitespace(phone_number)
    /\ ui.shown = <<PleaseEnter>>

\* C5: every invocation of look_up_availability ends by returning the times
\* 1pm, 2pm, 3pm and every invocation of confirm_appointment by returning
\* 'reservation confirmed', whatever the date and time, and neither issues a
\* delete-room or a transfer request.
C5_StubToolsConstant ==
    /\ (tool.name = "look_up_availability" /\ tool.pc \in Finished)
          => (tool.pc = "returned" /\ tool.result = AvailableTimes)
    /\ (tool.name = "confirm_appointment" /\ tool.pc \in Finished)
          => (tool.pc = "returned" /\ tool.result = ReservationConfirmed)
    /\ tool.name \in {"look_up_availability", "confirm_appointment"}
          => (tool.deletes = 0 /\ tool.transfers = 0)

\* C6: every invocation of end_call or detected_answering_machine has issued
\* exactly one delete-room request and no transfer request when it ends.
C6_EndingToolsDeleteOnce ==
    (tool.name \in {"end_call", "detected_answering_machine"} /\ tool.pc \in Finished)
        => (tool.deletes = 1 /\ tool.transfers = 0)

C8_SessionStartedBeforeDial ==
    /\ pc \notin {"create_task", "dial"} => sessionTask # "none"
    /\ pc = "dial" => (sessionTask # "none" /\ ENABLED EntryDial)

C8_Witness ==
    /\ pc = "dialing"
    /\ sessionTask = "running"

\* C9: end_call has issued its delete-room request only if the speech it found
\* current, if any, is no longer playing; it waits only when it found one.
C9_DeleteAfterPlayout ==
    tool.name = "end_call" =>
        /\ tool.deletes > 0 => (tool.speech = 0 \/ currentSpeech # tool.speech)
        /\ tool.pc = "playout" => (tool.speech # 0 /\ tool.deletes = 0)

C9_Witness ==
    /\ tool.name = "end_call"
    /\ tool.speech # 0
    /\ tool.deletes = 1

\* C10: no tool reads the participant while it is unset.
C10_NoToolReadsUnsetParticipant ==
    tool.readParticipant # None
====
